---- MODULE Spec2Model ----
(***************************************************************************)
(* Model of the LoadImagePlusHEIC node package (src/nodes.py and           *)
(* src/__init__.py): the node's methods load_image, VALIDATE_INPUTS,       *)
(* IS_CHANGED and INPUT_TYPES, the two routines that register the          *)
(* /heic_preview route on the server instance, and the route's handler.    *)
(*                                                                         *)
(* The package runs inside its host: the host modules folder_paths,        *)
(* node_helpers and server are importable, so _get_comfy_modules returns.  *)
(* Whether pillow_heif is importable, and what PromptServer.instance is,   *)
(* are inputs of the environment.                                          *)
(***************************************************************************)
EXTENDS Integers, Sequences, FiniteSets, TLC

VARIABLES
    instance,        \* PromptServer.instance: what the registration routines find
    flag,            \* instance._heic_preview_route_registered
    routes,          \* the /heic_preview handlers added to instance.routes, in order
    pc,              \* per thread: where it is inside a registration call
    call,            \* per thread: the routine it runs
    files,           \* the host's input directory: name -> file or Absent
    heifInstalled,   \* pillow_heif can be imported and registers
    heifRegistered,  \* Pillow's registry holds the HEIF opener
    res,             \* the last completed call: its arguments and what the caller got
    hist             \* the last two IS_CHANGED calls, oldest first

vars == <<instance, flag, routes, pc, call, files, heifInstalled, heifRegistered, res, hist>>

None == [op |-> "none"]
Absent == [present |-> FALSE]

----------------------------------------------------------------------------
(* Bounds of the model *)

MaxFrames == 3
MaxFileLen == 2
MaxChunk == 2
NThreads == 2

----------------------------------------------------------------------------
(* File names: sequences of characters, so that the extension is computed *)

NameHeic == <<"a", ".", "H", "e", "I", "C">>
NameHeif == <<"b", ".", "h", "e", "i", "f">>
NamePng == <<"c", ".", "p", "n", "g">>
NameDotHeic == <<".", "h", "e", "i", "c">>

ExtHeic == <<".", "h", "e", "i", "c">>
ExtHeif == <<".", "h", "e", "i", "f">>

HEIC_EXTS == {ExtHeic, ExtHeif}

ALLOWED_EXT ==
    { <<".", "p", "n", "g">>, <<".", "j", "p", "g">>, <<".", "j", "p", "e", "g">>,
      <<".", "w", "e", "b", "p">>, ExtHeic, ExtHeif,
      <<".", "b", "m", "p">>, <<".", "g", "i", "f">> }

\* str.lower on the characters the names use
LowerChar(c) ==
    CASE c = "C" -> "c"
      [] c = "E" -> "e"
      [] c = "F" -> "f"
      [] c = "H" -> "h"
      [] c = "I" -> "i"
      [] OTHER -> c

Lower(s) == [k \in 1..Len(s) |-> LowerChar(s[k])]

\* str.rfind, 1-based: the last position of c in p, 0 when there is none
RFind(p, c) ==
    LET hits == {k \in 1..Len(p) : p[k] = c}
    IN  IF hits = {} THEN 0 ELSE CHOOSE k \in hits : \A j \in hits : j <= k

\* os.path.splitext: <<root, ext>>; leading dots of the last component are
\* not an extension separator
SplitExt(p) ==
    LET sepIndex == RFind(p, "/")
        dotIndex == RFind(p, ".")
    IN  IF /\ dotIndex > sepIndex
           /\ \E k \in (sepIndex + 1)..(dotIndex - 1) : p[k] # "."
        THEN <<SubSeq(p, 1, dotIndex - 1), SubSeq(p, dotIndex, Len(p))>>
        ELSE <<p, <<>>>>

\* line 76-78
IsHeicPathCaseSensitive(name) == SplitExt(name)[2] \in HEIC_EXTS

IsHeicPath(name) == Lower(SplitExt(name)[2]) \in HEIC_EXTS

----------------------------------------------------------------------------
(* Images as Pillow presents them *)

Sizes == {<<1, 1>>, <<2, 1>>}
Formats == {"GIF", "MPO", "HEIF"}
Orientations == {1, 6}
AlphaVals == <<0, 51, 255>>

Coords(size) == (0..(size[1] - 1)) \X (0..(size[2] - 1))

\* the channel a frame carries besides its colours: the alpha band of an
\* RGBA frame, the palette indices of a P frame
FrameData(k, size, mode) ==
    [xy \in Coords(size) |->
        IF mode = "RGBA" THEN AlphaVals[((k + xy[1] + 2 * xy[2]) % 3) + 1]
        ELSE IF mode = "P" THEN (k + xy[1] + xy[2]) % 2
        ELSE 0]

\* <<mode, whether info holds "transparency">>
FrameKinds == {<<"RGB", FALSE>>, <<"RGBA", FALSE>>, <<"P", FALSE>>, <<"P", TRUE>>}
SingleFrameKinds == {<<"RGB", TRUE>>}

\* a frame: info holds "transparency" (palette index 0) or not
Frame(k, size, kind) ==
    [size |-> size, mode |-> kind[1], transparency |-> kind[2],
     data |-> FrameData(k, size, kind[1])]

FrameSpecs == Sizes \X FrameKinds

\* the files of the model: up to MaxFrames frames of the four main kinds, and
\* single frames of the other kind
FrameSeqs ==
    UNION {[1..n -> FrameSpecs] : n \in 1..MaxFrames}
        \cup {<<fs>> : fs \in Sizes \X SingleFrameKinds}

Image(format, orient, fs) ==
    [format |-> format, orientation |-> orient,
     frames |-> [k \in 1..Len(fs) |-> Frame(k, fs[k][1], fs[k][2])]]

Undecodable == [format |-> "BAD", orientation |-> 1, frames |-> <<>>]

\* pillow_heif applies the orientation itself: a HEIF image comes upright
FormatOrientations == {fo \in Formats \X Orientations : fo[1] = "HEIF" => fo[2] = 1}

Images == {Image(fo[1], fo[2], fs) : fo \in FormatOrientations, fs \in FrameSeqs}
            \cup {Undecodable}

File(bytes, img) == [present |-> TRUE, bytes |-> bytes, img |-> img]

\* the names and three files the specifications use
Names == {NameHeic, NameHeif, NamePng, NameDotHeic}

SomeBytes == <<97>>
GifImage == Image("GIF", 6, <<<<<<2, 1>>, <<"RGBA", FALSE>>>>>>)
HeifImage == Image("HEIF", 1, <<<<<<1, 1>>, <<"RGB", FALSE>>>>>>)

EmptyDir == [n \in Names |-> Absent]

----------------------------------------------------------------------------
(* Host and library calls the node makes *)

\* folder_paths.exists_annotated_filepath
ExistsAnnotatedFilepath(fsys, name) ==
    name \in DOMAIN fsys /\ fsys[name].present

\* _try_register_heif_opener: the value returned and the registry afterwards
TryRegisterHeifOpener(installed, registered) ==
    [ret |-> installed, registered |-> registered \/ installed]

\* PIL.Image.open on a path of the input directory
ImageOpen(fsys, name, registered) ==
    IF ~ExistsAnnotatedFilepath(fsys, name)
    THEN [ok |-> FALSE, error |-> "FileNotFoundError"]
    ELSE LET img == fsys[name].img
         IN  IF img.format = "BAD" \/ (img.format = "HEIF" /\ ~registered)
             THEN [ok |-> FALSE, error |-> "UnidentifiedImageError"]
             ELSE [ok |-> TRUE, img |-> img]

\* ImageOps.exif_transpose: orientation 6 is a rotation by 270 degrees, which
\* swaps width and height; orientation 1 leaves the frame as it is
ExifTranspose(frame, orientation) ==
    IF orientation = 6
    THEN LET w == frame.size[1]
             h == frame.size[2]
         IN  [frame EXCEPT !.size = <<h, w>>,
                           !.data = [xy \in Coords(<<h, w>>) |->
                                        frame.data[<<xy[2], h - 1 - xy[1]>>]]]
    ELSE frame

\* Image.getbands
GetBands(frame) ==
    CASE frame.mode = "RGBA" -> {"R", "G", "B", "A"}
      [] frame.mode = "RGB" -> {"R", "G", "B"}
      [] OTHER -> {"P"}

\* convert("RGBA").getchannel("A") of a palette frame: the transparent palette
\* index (0) becomes alpha 0, every other index alpha 255
PaletteAlpha(frame) ==
    [xy \in DOMAIN frame.data |->
        IF frame.transparency /\ frame.data[xy] = 0 THEN 0 ELSE 255]

\* values of float tensors are kept as numerators over 255
Scale == 255
MaskSide == 64
Channels == 3

\* np.array(channel) / 255.0 followed by 1.0 - x, as an (h, w) array
NotInvertedAlpha(size, alpha) ==
    [shape |-> <<size[2], size[1]>>,
     val |-> [rc \in (1..size[2]) \X (1..size[1]) |->
                 alpha[<<rc[2] - 1, rc[1] - 1>>]]]

InvertedAlpha(size, alpha) ==
    [shape |-> <<size[2], size[1]>>,
     val |-> [rc \in (1..size[2]) \X (1..size[1]) |->
                 Scale - alpha[<<rc[2] - 1, rc[1] - 1>>]]]

\* torch.zeros((64, 64))
OnesMask == [shape |-> <<MaskSide, MaskSide>>, fill |-> Scale]

ZeroMask == [shape |-> <<MaskSide, MaskSide>>, fill |-> 0]

\* lines 191-200: the mask of one (transposed) frame
MaskOf(i) ==
    IF "A" \in GetBands(i)
    THEN InvertedAlpha(i.size, i.data)
    ELSE IF i.mode = "P" /\ i.transparency
         THEN InvertedAlpha(i.size, PaletteAlpha(i))
         ELSE ZeroMask

\* t[None,] and t.unsqueeze(0): a batch of one
Unsqueeze(shape, item) == [shape |-> <<1>> \o shape, items |-> <<item>>]

RECURSIVE SumBatch(_), ConcatItems(_)
SumBatch(ts) == IF ts = <<>> THEN 0 ELSE Head(ts).shape[1] + SumBatch(Tail(ts))
ConcatItems(ts) == IF ts = <<>> THEN <<>> ELSE Head(ts).items \o ConcatItems(Tail(ts))

\* torch.cat(ts, dim=0): the tensors must agree in every other dimension
TorchCat(ts) ==
    IF \A k \in 1..Len(ts) : Tail(ts[k].shape) = Tail(ts[1].shape)
    THEN [ok |-> TRUE,
          t |-> [shape |-> <<SumBatch(ts)>> \o Tail(ts[1].shape),
                 items |-> ConcatItems(ts)]]
    ELSE [ok |-> FALSE]

----------------------------------------------------------------------------
(* LoadImagePlusHEIC.load_image *)

Raise(exc, msg, mentions, exists, opens, registered) ==
    [kind |-> "raise", exc |-> exc, msg |-> msg, mentions |-> mentions,
     exists |-> exists, opens |-> opens, registered |-> registered]

\* line 185: the frame's size is not the first frame's
SizeDiffersWidthOnly(i, w, h) == i.size[1] # w

SizeDiffers(i, w, h) == i.size[1] # w \/ i.size[2] # h

\* lines 174-203: one pass of the loop over ImageSequence.Iterator(img);
\* acc holds output_images, output_masks, w and h (0 while still None)
RECURSIVE FrameLoop(_, _, _)
FrameLoop(img, k, acc) ==
    IF k > Len(img.frames)
    THEN acc
    ELSE LET i == ExifTranspose(img.frames[k], img.orientation)
             first == Len(acc.images) = 0
             w == IF first THEN i.size[1] ELSE acc.w
             h == IF first THEN i.size[2] ELSE acc.h
         IN  IF SizeDiffers(i, w, h)
             THEN FrameLoop(img, k + 1, [acc EXCEPT !.w = w, !.h = h])
             ELSE FrameLoop(img, k + 1,
                    LET mask_t == MaskOf(i)
                    IN  [images |-> Append(acc.images,
                                      Unsqueeze(<<i.size[2], i.size[1], Channels>>, k)),
                         masks |-> Append(acc.masks, Unsqueeze(mask_t.shape, mask_t)),
                         w |-> w, h |-> h])

EXCLUDED_FORMATS == {"MPO"}

\* lines 168-215: from the opened image to the returned pair
StackFrames(img, exists, opens, registered) ==
    LET acc == FrameLoop(img, 1, [images |-> <<>>, masks |-> <<>>, w |-> 0, h |-> 0])
    IN  IF Len(acc.images) = 0
        THEN Raise("RuntimeError", "no frames decoded", {}, exists, opens, registered)
        ELSE IF Len(acc.images) > 1 /\ img.format \notin EXCLUDED_FORMATS
             THEN LET output_image == TorchCat(acc.images)
                      output_mask == TorchCat(acc.masks)
                  IN  IF output_image.ok /\ output_mask.ok
                      THEN [kind |-> "return",
                            image |-> output_image.t, mask |-> output_mask.t,
                            exists |-> exists, opens |-> opens,
                            registered |-> registered]
                      ELSE Raise("RuntimeError",
                                 "torch.cat: sizes of tensors must match",
                                 {}, exists, opens, registered)
             ELSE [kind |-> "return",
                   image |-> acc.images[1], mask |-> acc.masks[1],
                   exists |-> exists, opens |-> opens, registered |-> registered]

\* lines 153-166: the existence check, then the open
OpenUnchecked(image, fsys, reg) ==
    LET o == ImageOpen(fsys, image, reg)
    IN  IF ~o.ok
        THEN IF IsHeicPath(image)
             THEN Raise("RuntimeError", "Failed to open HEIC/HEIF image",
                        {"pillow-heif"}, 0, 1, reg)
             ELSE Raise("RuntimeError", "Failed to open image", {}, 0, 1, reg)
        ELSE [kind |-> "opened", img |-> o.img, exists |-> 0, opens |-> 1]

OpenChecked(image, fsys, reg) ==
    IF ~ExistsAnnotatedFilepath(fsys, image)
    THEN Raise("FileNotFoundError", "Image not found in input path", {}, 1, 0, reg)
    ELSE LET o == ImageOpen(fsys, image, reg)
         IN  IF ~o.ok
             THEN IF IsHeicPath(image)
                  THEN Raise("RuntimeError", "Failed to open HEIC/HEIF image",
                             {"pillow-heif"}, 1, 1, reg)
                  ELSE Raise("RuntimeError", "Failed to open image", {}, 1, 1, reg)
             ELSE [kind |-> "opened", img |-> o.img, exists |-> 1, opens |-> 1]

\* lines 143-215; exists and opens count the calls of exists_annotated_filepath
\* and of Image.open the call has made when it ends
LoadImage(image, fsys, installed, registered) ==
    IF IsHeicPath(image) /\ ~TryRegisterHeifOpener(installed, registered).ret
    THEN Raise("RuntimeError", "HEIC/HEIF support is not available",
               {"pillow-heif"}, 0, 0,
               TryRegisterHeifOpener(installed, registered).registered)
    ELSE LET reg == TryRegisterHeifOpener(installed, registered).registered
             o == OpenChecked(image, fsys, reg)
         IN  IF o.kind = "raise" THEN o
             ELSE StackFrames(o.img, o.exists, o.opens, reg)

\* lines 227-232

\* the value returned is True, or the text of the failure
ValidateInputs(image, fsys) ==
    IF ~ExistsAnnotatedFilepath(fsys, image)
    THEN [kind |-> "return", true |-> FALSE, text |-> <<"Invalid image file: ", image>>]
    ELSE [kind |-> "return", true |-> TRUE, text |-> <<>>]

----------------------------------------------------------------------------
(* hashlib.sha256 (FIPS 180-4).  A 32-bit word is <<high 16 bits, low 16 bits>> *)

RECURSIVE Xor16(_, _), And16(_, _)
Xor16(a, b) ==
    IF a = 0 THEN b
    ELSE IF b = 0 THEN a
    ELSE ((a + b) % 2) + 2 * Xor16(a \div 2, b \div 2)
And16(a, b) ==
    IF a = 0 \/ b = 0 THEN 0
    ELSE ((a % 2) * (b % 2)) + 2 * And16(a \div 2, b \div 2)

WXor(x, y) == <<Xor16(x[1], y[1]), Xor16(x[2], y[2])>>
WAnd(x, y) == <<And16(x[1], y[1]), And16(x[2], y[2])>>
WNot(x) == <<65535 - x[1], 65535 - x[2]>>
WAdd(x, y) ==
    LET lo == x[2] + y[2]
        hi == x[1] + y[1] + (lo \div 65536)
    IN  <<hi % 65536, lo % 65536>>

\* rotations and shifts to the right by n bits
RotRSmall(x, n) ==
    LET p == 2 ^ n
        q == 2 ^ (16 - n)
    IN  <<(x[1] \div p) + (x[2] % p) * q, (x[2] \div p) + (x[1] % p) * q>>
RotR(x, n) == IF n >= 16 THEN RotRSmall(<<x[2], x[1]>>, n - 16) ELSE RotRSmall(x, n)
ShR(x, n) ==
    LET p == 2 ^ n
        q == 2 ^ (16 - n)
    IN  <<x[1] \div p, (x[2] \div p) + (x[1] % p) * q>>

ShaK ==
    <<
       <<17034, 12184>>, <<28983, 17553>>, <<46528, 64463>>, <<59829, 56229>>,
       <<14678, 49755>>, <<23025, 4593>>, <<37439, 33444>>, <<43804, 24277>>,
       <<55303, 43672>>, <<4739, 23297>>, <<9265, 34238>>, <<21772, 32195>>,
       <<29374, 23924>>, <<32990, 45566>>, <<39900, 1703>>, <<49563, 61812>>,
       <<58523, 27073>>, <<61374, 18310>>, <<4033, 40390>>, <<9228, 41420>>,
       <<11753, 11375>>, <<19060, 33962>>, <<23728, 43484>>, <<30457, 35034>>,
       <<38974, 20818>>, <<43057, 50797>>, <<45059, 10184>>, <<48985, 32711>>,
       <<50912, 3059>>, <<54695, 37191>>, <<1738, 25425>>, <<5161, 10599>>,
       <<10167, 2693>>, <<11803, 8504>>, <<19756, 28156>>, <<21304, 3347>>,
       <<25866, 29524>>, <<30314, 2747>>, <<33218, 51502>>, <<37490, 11397>>,
       <<41663, 59553>>, <<43034, 26187>>, <<49739, 35696>>, <<51052, 20899>>,
       <<53650, 59417>>, <<54937, 1572>>, <<62478, 13701>>, <<4202, 41072>>,
       <<6564, 49430>>, <<7735, 27656>>, <<10056, 30540>>, <<13488, 48309>>,
       <<14620, 3251>>, <<20184, 43594>>, <<23452, 51791>>, <<26670, 28659>>,
       <<29839, 33518>>, <<30885, 25455>>, <<33992, 30740>>, <<36039, 520>>,
       <<37054, 65530>>, <<42064, 27883>>, <<48889, 41975>>, <<50801, 30962>> >>

ShaH0 ==
    <<
       <<27145, 58983>>, <<47975, 44677>>, <<15470, 62322>>, <<42319, 62778>>,
       <<20750, 21119>>, <<39685, 26764>>, <<8067, 55723>>, <<23520, 52505>> >>

BigSigma0(x) == WXor(WXor(RotR(x, 2), RotR(x, 13)), RotR(x, 22))
BigSigma1(x) == WXor(WXor(RotR(x, 6), RotR(x, 11)), RotR(x, 25))
SmallSigma0(x) == WXor(WXor(RotR(x, 7), RotR(x, 18)), ShR(x, 3))
SmallSigma1(x) == WXor(WXor(RotR(x, 17), RotR(x, 19)), ShR(x, 10))
Ch(x, y, z) == WXor(WAnd(x, y), WAnd(WNot(x), z))
Maj(x, y, z) == WXor(WXor(WAnd(x, y), WAnd(x, z)), WAnd(y, z))

\* the message with its padding: 0x80, zeros, the length in bits on 8 bytes
ShaPad(msg) ==
    LET zeros == (119 - Len(msg)) % 64
        bits == 8 * Len(msg)
    IN  msg \o <<128>> \o [k \in 1..zeros |-> 0]
            \o <<0, 0, 0, 0, 0, 0, bits \div 256, bits % 256>>

\* the 16 big-endian words of block number b (from 0) of the padded message
ShaBlock(padded, b) ==
    [t \in 1..16 |->
        LET o == 64 * b + 4 * (t - 1)
        IN  <<padded[o + 1] * 256 + padded[o + 2], padded[o + 3] * 256 + padded[o + 4]>>]

RECURSIVE ShaSchedule(_)
ShaSchedule(w) ==
    IF Len(w) = 64 THEN w
    ELSE LET t == Len(w) + 1
         IN  ShaSchedule(Append(w,
                WAdd(WAdd(SmallSigma1(w[t - 2]), w[t - 7]),
                     WAdd(SmallSigma0(w[t - 15]), w[t - 16]))))

RECURSIVE ShaRounds(_, _, _)
ShaRounds(s, w, t) ==
    IF t > 64 THEN s
    ELSE LET t1 == WAdd(WAdd(WAdd(s[8], BigSigma1(s[5])), Ch(s[5], s[6], s[7])),
                        WAdd(ShaK[t], w[t]))
             t2 == WAdd(BigSigma0(s[1]), Maj(s[1], s[2], s[3]))
             next == <<WAdd(t1, t2), s[1], s[2], s[3], WAdd(s[4], t1), s[5], s[6], s[7]>>
         IN  IF Len(next) = 8 THEN ShaRounds(next, w, t + 1) ELSE s

RECURSIVE ShaBlocks(_, _, _)
ShaBlocks(h, padded, b) ==
    IF 64 * b >= Len(padded) THEN h
    ELSE LET s == ShaRounds(h, ShaSchedule(ShaBlock(padded, b)), 1)
         IN  ShaBlocks([k \in 1..8 |-> WAdd(h[k], s[k])], padded, b + 1)

\* sha256(msg).digest(): eight words
Sha256(msg) == ShaBlocks(ShaH0, ShaPad(msg), 0)

HexDigits == <<"0", "1", "2", "3", "4", "5", "6", "7",
               "8", "9", "a", "b", "c", "d", "e", "f">>

\* bytes.hex() of a digest: 64 lower-case hexadecimal digits
Hex(words) ==
    [k \in 1..(8 * Len(words)) |->
        LET half == words[((k - 1) \div 8) + 1][(((k - 1) % 8) \div 4) + 1]
            nib == (half \div (16 ^ (3 - ((k - 1) % 4)))) % 16
        IN  HexDigits[nib + 1]]

----------------------------------------------------------------------------
(* LoadImagePlusHEIC.IS_CHANGED *)

Bytes == {97, 98}
ByteStrings == UNION {[1..n -> Bytes] : n \in 0..MaxFileLen}

\* the digests of the byte strings of the model, computed once
DigestTable == {<<b, Hex(Sha256(b))>> : b \in ByteStrings}

\* m.digest().hex() of a hash object that has absorbed msg
HexDigest(msg) == (CHOOSE p \in DigestTable : p[1] = msg)[2]

ReadSize == 1048576
ChunkSizes == (1..MaxChunk) \cup {ReadSize}

\* iter(lambda: f.read(n), b""): the chunks read until the first empty one
ReadFirstChunk(bytes, n) ==
    IF bytes = <<>> THEN <<>>
    ELSE IF Len(bytes) <= n THEN <<bytes>>
    ELSE <<SubSeq(bytes, 1, n)>>

RECURSIVE ReadChunks(_, _)
ReadChunks(bytes, n) ==
    IF bytes = <<>> THEN <<>>
    ELSE IF Len(bytes) <= n THEN <<bytes>>
    ELSE <<SubSeq(bytes, 1, n)>> \o ReadChunks(SubSeq(bytes, n + 1, Len(bytes)), n)

\* m.update(chunk) for each chunk: the object absorbs their concatenation
RECURSIVE UpdateAll(_, _)
UpdateAll(m, chunks) ==
    IF chunks = <<>> THEN m ELSE UpdateAll(m \o Head(chunks), Tail(chunks))

\* lines 217-225, reading n bytes at a time
IsChanged(image, fsys, n) ==
    IF ~ExistsAnnotatedFilepath(fsys, image)
    THEN [kind |-> "raise", exc |-> "FileNotFoundError"]
    ELSE [kind |-> "return",
          value |-> HexDigest(UpdateAll(<<>>, ReadChunks(fsys[image].bytes, n)))]

----------------------------------------------------------------------------
(* GET /heic_preview: the handler each registration routine installs *)

NoParam == [given |-> FALSE]
Param(v) == [given |-> TRUE, value |-> v]

\* "not filename": request.rel_url.query.get("filename") is None or ""
NoFilenameNoneOnly(q) == ~q.given

NoFilename(q) == ~q.given \/ q.value = <<>>

\* lines 39-48 of nodes.py, 43-52 of __init__.py: open, transpose, convert to
\* RGBA and encode the first frame as PNG
Transcode(fsys, filename, registered) ==
    LET o == ImageOpen(fsys, filename, registered)
    IN  IF ~o.ok
        THEN [status |-> 500, text |-> <<"failed to decode image", o.error>>,
              opens |-> 1, registered |-> registered]
        ELSE LET img == ExifTranspose(o.img.frames[1], o.img.orientation)
             IN  [status |-> 200, content_type |-> "image/png",
                  body |-> [format |-> "PNG", mode |-> "RGBA", size |-> img.size],
                  opens |-> 1, registered |-> registered]

\* the handler defined in nodes.py, lines 28-48
HeicPreviewNodes(q, fsys, installed, registered) ==
    IF NoFilename(q)
    THEN [status |-> 400, text |-> <<"filename is required">>,
          opens |-> 0, registered |-> registered]
    ELSE IF ~ExistsAnnotatedFilepath(fsys, q.value)
         THEN [status |-> 404, text |-> <<"file not found">>,
               opens |-> 0, registered |-> registered]
         ELSE Transcode(fsys, q.value,
                        TryRegisterHeifOpener(installed, registered).registered)

\* the handler defined in __init__.py, lines 31-52
HeicPreviewPackage(q, fsys, installed, registered) ==
    IF NoFilename(q)
    THEN [status |-> 400, text |-> <<"filename is required">>,
          opens |-> 0, registered |-> registered]
    ELSE IF ~ExistsAnnotatedFilepath(fsys, q.value)
         THEN [status |-> 404, text |-> <<"file not found">>,
               opens |-> 0, registered |-> registered]
         ELSE Transcode(fsys, q.value,
                        TryRegisterHeifOpener(installed, registered).registered)

----------------------------------------------------------------------------
(* _list_image_files_in_input_dir *)

\* the code points of the characters the names use
Ord(c) ==
    CASE c = "." -> 46 [] c = "/" -> 47
      [] c = "C" -> 67 [] c = "E" -> 69 [] c = "F" -> 70 [] c = "H" -> 72
      [] c = "I" -> 73
      [] c = "a" -> 97 [] c = "b" -> 98 [] c = "c" -> 99 [] c = "d" -> 100
      [] c = "e" -> 101 [] c = "f" -> 102 [] c = "g" -> 103 [] c = "h" -> 104
      [] c = "i" -> 105 [] c = "n" -> 110 [] c = "p" -> 112

\* Python's order on strings
RECURSIVE StrLess(_, _)
StrLess(a, b) ==
    IF a = <<>> THEN b # <<>>
    ELSE IF b = <<>> THEN FALSE
    ELSE IF Head(a) = Head(b) THEN StrLess(Tail(a), Tail(b))
    ELSE Ord(Head(a)) < Ord(Head(b))

RECURSIVE Sorted(_)
Sorted(S) ==
    IF S = {} THEN <<>>
    ELSE LET m == CHOOSE x \in S : \A y \in S \ {x} : StrLess(x, y)
         IN  <<m>> \o Sorted(S \ {m})

\* lines 103-124
ListImageFiles(fsys) ==
    Sorted({f \in DOMAIN fsys :
              fsys[f].present /\ Lower(SplitExt(f)[2]) \in ALLOWED_EXT})

----------------------------------------------------------------------------
(* Registration of the route: _register_preview_route_if_possible (nodes.py, *)
(* called by INPUT_TYPES) and _register_preview_route (__init__.py, called   *)
(* when the package is imported).  Threads of the host run them; a thread    *)
(* can be preempted between two statements.                                  *)

Threads == 1..NThreads

InstanceKinds == {"ok", "noroutes", "badroutes"}

\* the host creates its server: PromptServer.instance is set.  "noroutes" has
\* no attribute routes; "badroutes" has one whose get raises
CreateServer(kind) ==
    /\ instance = "none"
    /\ instance' = kind
    /\ UNCHANGED <<flag, routes, pc, call, files, heifInstalled, heifRegistered, res, hist>>

\* the package is imported: __init__.py line 59 calls _register_preview_route.
\* Python's import lock lets one thread at a time import the package
ImportPackage(t) ==
    /\ pc[t] = "idle"
    /\ \A u \in Threads : call[u] # "_register_preview_route"
    /\ pc' = [pc EXCEPT ![t] = "instance"]
    /\ call' = [call EXCEPT ![t] = "_register_preview_route"]
    /\ UNCHANGED <<instance, flag, routes, files, heifInstalled, heifRegistered, res, hist>>

\* INPUT_TYPES, line 130: calls _register_preview_route_if_possible
InputTypes(t) ==
    /\ pc[t] = "idle"
    /\ pc' = [pc EXCEPT ![t] = "instance"]
    /\ call' = [call EXCEPT ![t] = "INPUT_TYPES"]
    /\ UNCHANGED <<instance, flag, routes, files, heifInstalled, heifRegistered, res, hist>>

\* the registration routine of thread t returns: INPUT_TYPES goes on to list
\* the files, the import is over
Return(t) ==
    IF call[t] = "INPUT_TYPES"
    THEN pc' = [pc EXCEPT ![t] = "list"] /\ call' = call
    ELSE pc' = [pc EXCEPT ![t] = "idle"] /\ call' = [call EXCEPT ![t] = "none"]

\* nodes.py lines 20-22, __init__.py lines 21-23
ReadInstance(t) ==
    /\ pc[t] = "instance"
    /\ IF instance \in {"none", "noroutes"}
       THEN Return(t)
       ELSE pc' = [pc EXCEPT ![t] = "flag"] /\ call' = call
    /\ UNCHANGED <<instance, flag, routes, files, heifInstalled, heifRegistered, res, hist>>

\* nodes.py lines 23-24, __init__.py lines 26-27
ReadFlag(t) ==
    /\ pc[t] = "flag"
    /\ IF flag
       THEN Return(t)
       ELSE pc' = [pc EXCEPT ![t] = "set"] /\ call' = call
    /\ UNCHANGED <<instance, flag, routes, files, heifInstalled, heifRegistered, res, hist>>

\* nodes.py line 25, __init__.py line 28
SetFlag(t) ==
    /\ pc[t] = "set"
    /\ flag' = TRUE
    /\ pc' = [pc EXCEPT ![t] = "route"]
    /\ UNCHANGED <<instance, routes, call, files, heifInstalled, heifRegistered, res, hist>>

\* instance.routes.get("/heic_preview")(heic_preview): the handler is added,
\* or the call raises and the except clause returns
RoutesAfterGet(t) == IF instance = "ok" THEN Append(routes, call[t]) ELSE routes

\* nodes.py lines 27-50, __init__.py lines 30-56
AddRoute(t) ==
    /\ pc[t] = "route"
    /\ routes' = RoutesAfterGet(t)
    /\ Return(t)
    /\ UNCHANGED <<instance, flag, files, heifInstalled, heifRegistered, res, hist>>

\* INPUT_TYPES, lines 131-136: the list of files it returns
ListFiles(t) ==
    /\ pc[t] = "list"
    /\ pc' = [pc EXCEPT ![t] = "idle"]
    /\ call' = [call EXCEPT ![t] = "none"]
    /\ res' = [op |-> "INPUT_TYPES", out |-> ListImageFiles(files)]
    /\ UNCHANGED <<instance, flag, routes, files, heifInstalled, heifRegistered, hist>>

\* the server routes a GET /heic_preview to the first handler added
PreviewRequest(q) ==
    /\ routes # <<>>
    /\ LET out == IF Head(routes) = "INPUT_TYPES"
                  THEN HeicPreviewNodes(q, files, heifInstalled, heifRegistered)
                  ELSE HeicPreviewPackage(q, files, heifInstalled, heifRegistered)
       IN  /\ res' = [op |-> "heic_preview", query |-> q, out |-> out]
           /\ heifRegistered' = out.registered
    /\ UNCHANGED <<instance, flag, routes, pc, call, files, heifInstalled, hist>>

\* the input directory the server runs with
ServerDir ==
    [n \in Names |->
        CASE n = NameHeic -> File(SomeBytes, HeifImage)
          [] n = NamePng -> File(SomeBytes, GifImage)
          [] n = NameDotHeic -> File(SomeBytes, Undecodable)
          [] OTHER -> Absent]

Queries == {NoParam, Param(<<>>)} \cup {Param(n) : n \in Names}

Init ==
    /\ instance = "none"
    /\ flag = FALSE
    /\ routes = <<>>
    /\ pc = [t \in Threads |-> "idle"]
    /\ call = [t \in Threads |-> "none"]
    /\ files = ServerDir
    /\ heifInstalled \in BOOLEAN
    /\ heifRegistered = FALSE
    /\ res = None
    /\ hist = <<>>

Next ==
    \/ \E kind \in InstanceKinds : CreateServer(kind)
    \/ \E t \in Threads : ImportPackage(t)
    \/ \E t \in Threads : InputTypes(t)
    \/ \E t \in Threads : ReadInstance(t)
    \/ \E t \in Threads : ReadFlag(t)
    \/ \E t \in Threads : SetFlag(t)
    \/ \E t \in Threads : AddRoute(t)
    \/ \E t \in Threads : ListFiles(t)
    \/ \E q \in Queries : PreviewRequest(q)

Spec == Init /\ [][Next]_vars

----------------------------------------------------------------------------
(* The input directory and the node's methods as the host calls them *)

DirIsEmpty == \A n \in Names : ~files[n].present

\* a file is written into the input directory (an upload, or a rewrite)
WriteFile(name, file) ==
    /\ files' = [files EXCEPT ![name] = file]
    /\ res' = None
    /\ UNCHANGED <<instance, flag, routes, pc, call, heifInstalled, heifRegistered, hist>>

DeleteFile(name) ==
    /\ files[name].present
    /\ files' = [files EXCEPT ![name] = Absent]
    /\ res' = None
    /\ UNCHANGED <<instance, flag, routes, pc, call, heifInstalled, heifRegistered, hist>>

LoadImageCall(image) ==
    LET out == LoadImage(image, files, heifInstalled, heifRegistered)
    IN  /\ res' = [op |-> "load_image", image |-> image, file |-> files[image],
                   out |-> out]
        /\ heifRegistered' = out.registered
        /\ UNCHANGED <<instance, flag, routes, pc, call, files, heifInstalled, hist>>

ValidateInputsCall(image) ==
    /\ res' = [op |-> "VALIDATE_INPUTS", image |-> image, file |-> files[image],
               out |-> ValidateInputs(image, files)]
    /\ UNCHANGED <<instance, flag, routes, pc, call, files, heifInstalled,
                   heifRegistered, hist>>

\* hist keeps, of each of the last two calls, the bytes the file held (or that
\* it was missing), whether they were read in more than one chunk, and the result
IsChangedCall(image, n) ==
    LET out == IsChanged(image, files, n)
        rec == [file |-> IF files[image].present THEN files[image].bytes ELSE Absent,
                split |-> files[image].present /\ Len(files[image].bytes) > n,
                out |-> out]
    IN  /\ res' = [op |-> "IS_CHANGED", image |-> image, file |-> files[image],
                   out |-> out]
        /\ hist' = IF Len(hist) < 2 THEN Append(hist, rec) ELSE <<hist[2], rec>>
        /\ UNCHANGED <<instance, flag, routes, pc, call, files, heifInstalled,
                       heifRegistered>>

\* the node alone, before any file is in the directory
InitNode ==
    /\ instance = "none"
    /\ flag = FALSE
    /\ routes = <<>>
    /\ pc = [t \in 1..NThreads |-> "idle"]
    /\ call = [t \in 1..NThreads |-> "none"]
    /\ files = EmptyDir
    /\ heifInstalled \in BOOLEAN
    /\ heifRegistered = FALSE
    /\ res = None
    /\ hist = <<>>

\* decoding: one file at a time, of every image of the model
LoadNames == {NameHeic, NamePng}

NextLoad ==
    \/ DirIsEmpty /\ \E name \in LoadNames, img \in Images :
                        WriteFile(name, File(SomeBytes, img))
    \/ \E name \in LoadNames : DeleteFile(name)
    \/ \E name \in LoadNames : LoadImageCall(name)

SpecLoad == InitNode /\ [][NextLoad]_vars

\* the node's checks: any directory over four names and three kinds of file
NodeImages == {GifImage, HeifImage, Undecodable}

NextNode ==
    \/ \E name \in Names, img \in NodeImages : WriteFile(name, File(SomeBytes, img))
    \/ \E name \in Names : DeleteFile(name)
    \/ \E name \in Names : LoadImageCall(name)
    \/ \E name \in Names : ValidateInputsCall(name)

SpecNode == InitNode /\ [][NextNode]_vars

\* change detection: one file whose bytes are rewritten
HashNames == {NamePng}

NextHash ==
    \/ \E name \in HashNames, b \in ByteStrings : WriteFile(name, File(b, GifImage))
    \/ \E name \in HashNames : DeleteFile(name)
    \/ \E name \in HashNames, n \in ChunkSizes : IsChangedCall(name, n)
    \/ \E name \in HashNames : LoadImageCall(name)
    \/ \E name \in HashNames : ValidateInputsCall(name)

SpecHash == InitNode /\ [][NextHash]_vars

----------------------------------------------------------------------------
(* The properties checked.  Helpers that state what a claim speaks of are    *)
(* written from the claim, not from the operators above.                     *)

\* the names of the model whose extension is .heic or .heif in any letter
\* case (".heic" alone is a hidden file without extension)
HasHeicExtension(name) == name \in {NameHeic, NameHeif}

\* the file decodes: it is an image, and a HEIF image has its codec
Decodes(file) ==
    /\ file.present
    /\ file.img.format # "BAD"
    /\ file.img.format = "HEIF" => heifInstalled

\* width and height of a frame once its EXIF orientation is applied
UprightSize(img, k) ==
    IF img.orientation \in 5..8
    THEN <<img.frames[k].size[2], img.frames[k].size[1]>>
    ELSE img.frames[k].size

----------------------------------------------------------------------------
(* Registration of the route *)

\* C1: after any interleaving of calls of the two registration routines on the
\* same server instance, /heic_preview has been added to its routes at most once
C1_RouteInstalledAtMostOnce == Len(routes) <= 1

\* no thread is between setting the flag and adding the route
NoRegistrationUnderWay == \A t \in Threads : pc[t] # "route"

\* C10: when the flag is set on the instance the route is installed on it; a
\* registration that fails after setting the flag does not leave the flag set
\* with no route (stated for the states in which no registration is under way)
C10_FlagImpliesRoute == (flag /\ NoRegistrationUnderWay) => routes # <<>>

----------------------------------------------------------------------------
(* GET /heic_preview *)

\* C2: a request gets 400 when filename is missing or empty, otherwise 404 when
\* the file does not exist, otherwise 500 with the error text when decoding
\* fails, otherwise 200 with an image/png body; the file is not opened on the
\* 400 and 404 paths
C2_PreviewResponse ==
    res.op = "heic_preview" =>
        LET q == res.query
            out == res.out
        IN  IF ~q.given \/ q.value = <<>>
            THEN out.status = 400 /\ out.opens = 0
            ELSE IF ~files[q.value].present
            THEN out.status = 404 /\ out.opens = 0
            ELSE IF ~Decodes(files[q.value])
            THEN out.status = 500 /\ Len(out.text) = 2
                 /\ out.text[1] = "failed to decode image"
            ELSE out.status = 200 /\ out.content_type = "image/png"
                 /\ out.body.format = "PNG"

\* a HEIF file was requested while its codec is missing: the decode failed
C2_Witness ==
    /\ res.op = "heic_preview"
    /\ res.query = Param(NameHeic)
    /\ ~heifInstalled
    /\ res.out.status = 500

----------------------------------------------------------------------------
(* load_image and VALIDATE_INPUTS: the checks before decoding *)

\* what load_image would do on the same name and directory with the codec there
WithCodec == LoadImage(res.image, files, TRUE, TRUE)

\* C3 as stated: with a .heic/.heif name and no codec the error names
\* pillow-heif and comes before the existence check and the open; with any
\* other name the missing codec never causes an error (a call that fails
\* would fail with the codec too)
C3_CodecErrorOnlyForHeicNames ==
    res.op = "load_image" =>
        /\ (HasHeicExtension(res.image) /\ ~heifInstalled) =>
              /\ res.out.kind = "raise"
              /\ "pillow-heif" \in res.out.mentions
              /\ res.out.exists = 0 /\ res.out.opens = 0
        /\ (~HasHeicExtension(res.image) /\ ~heifInstalled /\ res.out.kind = "raise") =>
              WithCodec.kind = "raise"

\* C3 as amended: with a .heic/.heif name and no codec the error names
\* pillow-heif and comes before the existence check and the open; with any
\* other name the codec check never raises: the call goes on to the existence
\* check, and the missing codec makes it fail only on HEIF-encoded content,
\* in the opener, with the generic open error
C3_CodecCheck ==
    res.op = "load_image" =>
        /\ (HasHeicExtension(res.image) /\ ~heifInstalled) =>
              /\ res.out.kind = "raise"
              /\ "pillow-heif" \in res.out.mentions
              /\ res.out.exists = 0 /\ res.out.opens = 0
        /\ ~HasHeicExtension(res.image) =>
              /\ res.out.exists = 1
              /\ res.out.kind = "raise" => "pillow-heif" \notin res.out.mentions
              /\ (~heifInstalled /\ res.out.kind = "raise" /\ WithCodec.kind = "return") =>
                    /\ res.file.img.format = "HEIF"
                    /\ res.out.msg = "Failed to open image"
                    /\ res.out.opens = 1

\* an existing HEIF file is loaded under a .HeIC name without the codec
C3_Witness ==
    /\ res.op = "load_image"
    /\ res.image = NameHeic
    /\ res.file.present
    /\ ~heifInstalled
    /\ res.out.kind = "raise"

\* C8 as stated: load_image on a missing file raises the file-not-found error
\* without calling the opener; VALIDATE_INPUTS returns a failure message
\* instead of True exactly when the file does not exist; a failing call ends
\* with one error and the open is not tried again
C8_MissingFileReported ==
    /\ (res.op = "load_image" /\ ~res.file.present) =>
          /\ res.out.kind = "raise"
          /\ res.out.exc = "FileNotFoundError"
          /\ res.out.opens = 0
    /\ res.op = "load_image" => res.out.opens <= 1
    /\ res.op = "VALIDATE_INPUTS" =>
          /\ res.out.kind = "return"
          /\ res.out.true <=> res.file.present
          /\ ~res.out.true => res.out.text # <<>>

\* C8 as amended: as stated, except that for a .heic/.heif name without the
\* codec the missing-dependency error is raised first, before the existence
\* check, also without calling the opener
C8_MissingFileReportedUnlessCodec ==
    /\ (res.op = "load_image" /\ ~res.file.present) =>
          /\ res.out.kind = "raise"
          /\ res.out.opens = 0
          /\ IF HasHeicExtension(res.image) /\ ~heifInstalled
             THEN /\ res.out.exc = "RuntimeError"
                  /\ "pillow-heif" \in res.out.mentions
                  /\ res.out.exists = 0
             ELSE res.out.exc = "FileNotFoundError"
    /\ res.op = "load_image" => res.out.opens <= 1
    /\ res.op = "VALIDATE_INPUTS" =>
          /\ res.out.kind = "return"
          /\ res.out.true <=> res.file.present
          /\ ~res.out.true => res.out.text # <<>>

\* a .png name that is not in the directory was loaded
C8_Witness ==
    /\ res.op = "load_image"
    /\ res.image = NamePng
    /\ ~res.file.present
    /\ res.out.kind = "raise"
    /\ res.out.exc = "FileNotFoundError"

----------------------------------------------------------------------------
(* load_image: frames, batches and masks *)

\* the call gets past the codec check and the open
Opens == ~(HasHeicExtension(res.image) /\ ~heifInstalled) /\ Decodes(res.file)

NumFrames == Len(res.file.img.frames)

\* entry (r, c) of a mask
Entry(m, r, c) == IF "fill" \in DOMAIN m THEN m.fill ELSE m.val[<<r, c>>]

\* C4: when all frames have the same width and height, the pixel batch and the
\* mask batch have as many entries as the file has frames, and one entry when
\* the format is MPO
C4_BatchSizeIsFrameCount ==
    (/\ res.op = "load_image"
     /\ Opens
     /\ NumFrames >= 2
     /\ \A k \in 1..NumFrames : UprightSize(res.file.img, k) = UprightSize(res.file.img, 1))
    => /\ res.out.kind = "return"
       /\ LET n == IF res.file.img.format = "MPO" THEN 1 ELSE NumFrames
          IN  res.out.image.shape[1] = n /\ res.out.mask.shape[1] = n

\* the frames whose size is the first frame's, in the order of the file
Kept(img) ==
    SelectSeq([k \in 1..Len(img.frames) |-> k],
              LAMBDA k : UprightSize(img, k) = UprightSize(img, 1))

\* the directory with the file reduced to the frames of Kept
WithoutSkipped ==
    LET img == res.file.img
    IN  [files EXCEPT ![res.image].img.frames =
            [j \in 1..Len(Kept(img)) |-> img.frames[Kept(img)[j]]]]

\* C5: the frames of the output are the frames whose width and height are the
\* first frame's, in the order of the file and with their own size; the other
\* frames are skipped without an error: a call that raises raises as well on
\* the file without them
C5_MismatchedFramesSkipped ==
    (res.op = "load_image" /\ Opens) =>
        LET img == res.file.img
            first == UprightSize(img, 1)
        IN  /\ res.out.kind = "return" =>
                /\ res.out.image.items =
                      IF Len(Kept(img)) > 1 /\ img.format # "MPO"
                      THEN Kept(img) ELSE <<1>>
                /\ \A j \in 1..Len(res.out.image.items) :
                      UprightSize(img, res.out.image.items[j]) = first
                /\ res.out.image.shape =
                      <<Len(res.out.image.items), first[2], first[1], 3>>
            /\ res.out.kind = "raise" =>
                LoadImage(res.image, WithoutSkipped, heifInstalled, heifRegistered).kind
                    = "raise"

\* three frames, the second of another size: the first and the third come out
C5_Witness ==
    /\ res.op = "load_image"
    /\ res.out.kind = "return"
    /\ NumFrames = 3
    /\ UprightSize(res.file.img, 2) # UprightSize(res.file.img, 1)
    /\ res.out.image.items = <<1, 3>>

\* no alpha band and no palette transparency
Opaque(frame) == frame.mode # "RGBA" /\ ~(frame.mode = "P" /\ frame.transparency)

\* C6: a single-frame image of height H and width W (as displayed, after its
\* EXIF orientation) without alpha and without palette transparency comes out
\* as pixels of shape (1, H, W, 3) and a mask of shape (1, 64, 64), all zero
C6_OpaqueSingleFrame ==
    (/\ res.op = "load_image"
     /\ Opens
     /\ NumFrames = 1
     /\ Opaque(res.file.img.frames[1]))
    => /\ res.out.kind = "return"
       /\ res.out.image.shape =
             <<1, UprightSize(res.file.img, 1)[2], UprightSize(res.file.img, 1)[1], 3>>
       /\ res.out.mask.shape = <<1, 64, 64>>
       /\ Len(res.out.mask.items) = 1
       /\ \A r \in 1..64, c \in 1..64 : Entry(res.out.mask.items[1], r, c) = 0

\* an opaque frame stored 2 wide and 1 high, turned by its orientation
C6_Witness ==
    /\ res.op = "load_image"
    /\ res.out.kind = "return"
    /\ NumFrames = 1
    /\ Opaque(res.file.img.frames[1])
    /\ res.file.img.orientation = 6
    /\ res.out.image.shape = <<1, 2, 1, 3>>

HasAlpha(frame) == frame.mode = "RGBA" \/ (frame.mode = "P" /\ frame.transparency)

\* the alpha of the stored pixel (x, y): the alpha band, or 0 for the
\* transparent palette index and 255 for the others
StoredAlpha(frame, x, y) ==
    IF frame.mode = "RGBA" THEN frame.data[<<x, y>>]
    ELSE IF frame.data[<<x, y>>] = 0 THEN 0 ELSE 255

\* the alpha of the pixel displayed at (x, y): orientation 6 shows the stored
\* image turned a quarter clockwise
DisplayedAlpha(img, k, x, y) ==
    IF img.orientation = 6
    THEN StoredAlpha(img.frames[k], y, img.frames[k].size[2] - 1 - x)
    ELSE StoredAlpha(img.frames[k], x, y)

\* C7: the mask of every frame with an alpha channel has the frame's height and
\* width and holds, for each pixel, 1 minus alpha/255 (in 255ths: 255 - alpha)
C7_MaskIsInvertedAlpha ==
    (res.op = "load_image" /\ res.out.kind = "return") =>
        \A j \in 1..Len(res.out.mask.items) :
            LET img == res.file.img
                k == res.out.image.items[j]
                m == res.out.mask.items[j]
                size == UprightSize(img, k)
            IN  HasAlpha(img.frames[k]) =>
                    /\ m.shape = <<size[2], size[1]>>
                    /\ res.out.mask.shape = <<Len(res.out.mask.items), size[2], size[1]>>
                    /\ \A r \in 1..size[2], c \in 1..size[1] :
                          Entry(m, r, c) = 255 - DisplayedAlpha(img, k, c - 1, r - 1)

\* a turned frame with an opaque and a transparent pixel: mask 0 and mask 1
C7_Witness ==
    /\ res.op = "load_image"
    /\ res.out.kind = "return"
    /\ res.file.img.orientation = 6
    /\ \E j \in 1..Len(res.out.mask.items) :
          /\ res.out.mask.items[j].shape = <<2, 1>>
          /\ HasAlpha(res.file.img.frames[res.out.image.items[j]])
          /\ \E r \in 1..2 : Entry(res.out.mask.items[j], r, 1) = 0
          /\ \E r \in 1..2 : Entry(res.out.mask.items[j], r, 1) = 255

----------------------------------------------------------------------------
(* IS_CHANGED *)

\* C9: of two calls, the digests are the same when the files held the same
\* bytes, however they were read and whatever was called in between, and
\* differ when the bytes differ; a digest is 64 hexadecimal digits
C9_DigestOfBytesOnly ==
    \A i \in 1..Len(hist), j \in 1..Len(hist) :
        (hist[i].out.kind = "return" /\ hist[j].out.kind = "return") =>
            /\ (hist[i].file = hist[j].file) <=> (hist[i].out.value = hist[j].out.value)
            /\ Len(hist[i].out.value) = 64
            /\ \A k \in 1..64 : \E d \in 1..16 : hist[i].out.value[k] = HexDigits[d]

\* the same bytes, read once in one chunk and once in several
C9_Witness ==
    /\ Len(hist) = 2
    /\ hist[1].out.kind = "return" /\ hist[2].out.kind = "return"
    /\ hist[1].file = hist[2].file
    /\ hist[1].split # hist[2].split
    /\ hist[1].out.value = hist[2].out.value

====
